---- MODULE Spec2Model ----
(***************************************************************************)
(* Model of the in-memory operations storage of the Kyma Environment       *)
(* Broker (internal/storage/driver/memory/operation.go).                   *)
(*                                                                         *)
(* The store keeps one Go map per operation kind, guarded by one           *)
(* sync.Mutex.  Callers are goroutines; a method that takes the mutex is   *)
(* modelled in steps (Lock, the existence/version test, the map write      *)
(* with the deferred Unlock), a method that does not take it is one step.  *)
(*                                                                         *)
(* Beside the store: the runtime target options of the CLI                 *)
(* (cmd/cli/command/options.go, variable cli), the runtime converter       *)
(* (internal/runtime/converter.go, variable conv) and the orchestration    *)
(* scheduling described by the design document (variable sched).           *)
(***************************************************************************)
EXTENDS Integers, Sequences, FiniteSets, TLC

VARIABLES provisioningOperations, deprovisioningOperations,
          upgradeKymaOperations, mu, pc, call, ret, cli, sched, conv

maps == <<provisioningOperations, deprovisioningOperations, upgradeKymaOperations>>
store == <<provisioningOperations, deprovisioningOperations,
           upgradeKymaOperations, mu, pc, call, ret>>
outside == <<cli, sched, conv>>
vars == <<store, outside>>

(***************************************************************************)
(* Bounds of the model.                                                    *)
(***************************************************************************)
MaxVersion == 1
MaxTime == 2
MaxPageSize == 2
MaxPage == 2
MaxInputs == 2
MaxOps == 3
MaxWorkers == 2
MaxOprs == 2

(***************************************************************************)
(* Goroutines calling the store.  Procs call it concurrently; Callers is  *)
(* the single goroutine of the sequential specifications.                  *)
(***************************************************************************)
Procs == {"p1", "p2"}
Callers == {"p1"}

None == "none"
Nil == "nil"

(***************************************************************************)
(* domain.LastOperationState values used by the broker.                    *)
(***************************************************************************)
InProgress == "in progress"
Succeeded == "succeeded"
Failed == "failed"

(***************************************************************************)
(* internal.Operation as embedded in the three operation kinds.  The zero  *)
(* value is what a Go map lookup yields for a missing key.                 *)
(***************************************************************************)
Operation(id, version, createdAt, instanceID, orchestrationID, runtimeID, state) ==
    [ID |-> id, Version |-> version, CreatedAt |-> createdAt,
     InstanceID |-> instanceID, OrchestrationID |-> orchestrationID,
     RuntimeID |-> runtimeID, State |-> state]

ZeroOperation == Operation("", 0, 0, "", "", "", "")

(***************************************************************************)
(* Operations handed to Insert and Update in Spec and SpecRace: one id,    *)
(* every version up to MaxVersion, two states (the payload that tells two  *)
(* writers of one version apart).                                          *)
(***************************************************************************)
Operations ==
    { Operation(id, v, 1, "i1", "o1", "r1", st) :
        id \in {"a"}, v \in 0..MaxVersion, st \in {InProgress, Succeeded} }

OperationIDs == {"a"}

(***************************************************************************)
(* Go map primitives.                                                      *)
(***************************************************************************)
EmptyMap == [k \in {} |-> ZeroOperation]

ExistsNever(m, id) == FALSE

Exists(m, id) == id \in DOMAIN m

Lookup(m, id) == IF id \in DOMAIN m THEN m[id] ELSE ZeroOperation

PutOnly(m, id, op) == [k \in {id} |-> op]

Put(m, id, op) == [k \in DOMAIN m \cup {id} |-> IF k = id THEN op ELSE m[k]]

(***************************************************************************)
(* A call in flight and the result of the last completed call.             *)
(***************************************************************************)
Call(method, arg) == [method |-> method, arg |-> arg]

NoCall == Call(None, None)

Result(c, err, val) == [call |-> c, err |-> err, val |-> val]

NoResult == Result(NoCall, None, None)

(***************************************************************************)
(* cmd/cli/command/options.go: the runtime target options of the CLI.      *)
(* A Go string is the sequence of its characters.                          *)
(***************************************************************************)
TargetAll == <<"a", "l", "l">>
targetAccount == <<"a", "c", "c", "o", "u", "n", "t">>
targetSubaccount == <<"s", "u", "b">> \o targetAccount
targetRegion == <<"r", "e", "g", "i", "o", "n">>
targetRuntimeID == <<"r", "u", "n", "t", "i", "m", "e", "-", "i", "d">>

(***************************************************************************)
(* strings.Split(s, sep) for a one-character separator: the substrings     *)
(* between the separators, one more than there are separators.             *)
(***************************************************************************)
RECURSIVE Split(_, _)
Split(s, sep) ==
    IF \E i \in 1..Len(s) : s[i] = sep
    THEN LET i == CHOOSE n \in 1..Len(s) :
                     s[n] = sep /\ \A m \in 1..(n - 1) : s[m] # sep
         IN <<SubSeq(s, 1, i - 1)>> \o Split(SubSeq(s, i + 1, Len(s)), sep)
    ELSE <<s>>

(***************************************************************************)
(* internal.RuntimeTarget and internal.TargetSpec, zero values.            *)
(***************************************************************************)
RuntimeTarget ==
    [Target |-> <<>>, GlobalAccount |-> <<>>, SubAccount |-> <<>>,
     Region |-> <<>>, RuntimeID |-> <<>>]

TargetSpec == [Include |-> <<>>, Exclude |-> <<>>]

checkRuntimeTargetSelector(selectorValue) ==
    IF selectorValue = <<>> THEN "MissingValue" ELSE Nil

(***************************************************************************)
(* "if !include { return error }" under case internal.TargetAll.           *)
(***************************************************************************)
AllAllowedAlways(include) == TRUE

AllAllowed(include) == include

(***************************************************************************)
(* The loop of parseRuntimeTarget over the selectors from position k on;   *)
(* the first error returns, leaving the target unused.                     *)
(***************************************************************************)
RECURSIVE parseSelectors(_, _, _, _)
parseSelectors(selectors, k, target, include) ==
    IF k > Len(selectors) THEN [err |-> Nil, target |-> target]
    ELSE LET sv == Split(selectors[k], "=")
             selectorKey == sv[1]
             selectorValue == IF Len(sv) > 1 THEN sv[2] ELSE <<>>
             Error(e) == [err |-> e, target |-> target]
             Set(field) ==
                 IF checkRuntimeTargetSelector(selectorValue) # Nil
                 THEN Error(checkRuntimeTargetSelector(selectorValue))
                 ELSE parseSelectors(selectors, k + 1,
                                     [target EXCEPT ![field] = selectorValue], include)
         IN CASE selectorKey = TargetAll ->
                     IF ~AllAllowed(include) THEN Error("AllInExclude")
                     ELSE parseSelectors(selectors, k + 1,
                                         [target EXCEPT !.Target = TargetAll], include)
              [] selectorKey = targetAccount -> Set("GlobalAccount")
              [] selectorKey = targetSubaccount -> Set("SubAccount")
              [] selectorKey = targetRegion -> Set("Region")
              [] selectorKey = targetRuntimeID -> Set("RuntimeID")
              [] OTHER -> Error("InvalidSelector")

(***************************************************************************)
(* parseRuntimeTarget: the error and the targets list after the call; the  *)
(* target is appended only when every selector parsed.                     *)
(***************************************************************************)
parseRuntimeTarget(targetInput, targets, include) ==
    LET r == parseSelectors(Split(targetInput, ","), 1, RuntimeTarget, include)
    IN IF r.err # Nil THEN [err |-> r.err, targets |-> targets]
       ELSE [err |-> Nil, targets |-> Append(targets, r.target)]

(***************************************************************************)
(* The command line: --target and --target-exclude values a user passes.   *)
(***************************************************************************)
Value == <<"x">>

TargetStrings ==
    { TargetAll,
      targetAccount \o <<"=">> \o Value,
      targetSubaccount \o <<"=">> \o Value,
      targetRuntimeID \o <<"=">> \o Value \o <<",">> \o TargetAll,
      TargetAll \o <<",">> \o targetRegion,
      Value }

RECURSIVE SeqsUpTo(_, _)
SeqsUpTo(S, n) ==
    IF n = 0 THEN { <<>> }
    ELSE SeqsUpTo(S, n - 1) \cup
         { Append(q, x) : q \in { t \in SeqsUpTo(S, n - 1) : Len(t) = n - 1 }, x \in S }

TargetInputs == SeqsUpTo(TargetStrings, MaxInputs)

(***************************************************************************)
(* State of one run of ValidateTransformRuntimeTargetOpts: its arguments,  *)
(* the loop it is in, the inputs that loop has consumed, the target spec   *)
(* it fills and the error it returned.                                     *)
(***************************************************************************)
NotCalled ==
    [pc |-> "start", targetInputs |-> <<>>, targetExcludeInputs |-> <<>>,
     n |-> 0, targetSpec |-> TargetSpec, err |-> Nil]

(***************************************************************************)
(* internal/runtime/converter.go.  The fields of internal.Operation that   *)
(* applyOperation reads, and pkg.Operation, whose OrchestrationID is a     *)
(* *string: <<>> for nil, <<cell>> for the address of the OrchestrationID  *)
(* field of the variable named cell.                                       *)
(***************************************************************************)
SourceOperation(id, createdAt, state, description, orchestrationID) ==
    [ID |-> id, CreatedAt |-> createdAt, State |-> state,
     Description |-> description, OrchestrationID |-> orchestrationID]

PkgOperation ==
    [OperationID |-> "", CreatedAt |-> 0, State |-> "", Description |-> "",
     OrchestrationID |-> <<>>]

applyOperation(source, cell, target) ==
    [target EXCEPT !.OperationID = source.ID,
                   !.CreatedAt = source.CreatedAt,
                   !.State = source.State,
                   !.Description = source.Description,
                   !.OrchestrationID =
                       IF source.OrchestrationID # "" THEN <<cell>> ELSE @]

(***************************************************************************)
(* The variable o of "for _, o := range oprs" in iteration i.  Up to Go    *)
(* 1.21 the loop has one variable o that every iteration assigns (cell     *)
(* 0); from Go 1.22 on each iteration has its own (cell i).  The language  *)
(* version is set by the go.mod of the build.                              *)
(***************************************************************************)
LoopVarSemantics == {"per-loop", "per-iteration"}

LoopVar(semantics, i) == IF semantics = "per-loop" THEN 0 ELSE i

(***************************************************************************)
(* The slices of upgrade operations handed to the converter.               *)
(***************************************************************************)
Oprs ==
    SeqsUpTo({ SourceOperation("a", 1, InProgress, "da", o) : o \in {"", "o1", "o2"} }
             \cup
             { SourceOperation("b", 2, Succeeded, "db", o) : o \in {"", "o1", "o2"} },
             MaxOprs)

NotConverted ==
    [pc |-> "start", oprs |-> <<>>, totalCount |-> 0,
     UpgradingKyma |-> [TotalCount |-> 0, Count |-> 0, Data |-> <<>>],
     o |-> <<>>]

(***************************************************************************)
(* Orchestration scheduling (Scheduler and Strategies, Queue, Step         *)
(* Executor, Orchestration Manager).  One orchestration: its strategy, its *)
(* state, the states of its RuntimeOperations in resolved order, the       *)
(* bounded FIFO queue as the counts of operations enqueued and dequeued,   *)
(* the operation each worker runs (0: waiting in Get), the phase of the    *)
(* strategy and the cancellation signal.                                   *)
(***************************************************************************)
Pending == "pending"
Canceling == "canceling"
Canceled == "canceled"

Terminal == {Succeeded, Failed, Canceled}

Min(x, y) == IF x < y THEN x ELSE y

Max(a, b) == IF a > b THEN a ELSE b

(***************************************************************************)
(* First batch of Canary(p, N): max(1, ceil(p% * len)) operations.         *)
(***************************************************************************)
BatchSize(p, len) == Max(1, (p * len + 99) \div 100)

Parallel(N) == [type |-> "parallel", workers |-> N, canaryPercent |-> 0]

Canary(p, N) == [type |-> "canary", workers |-> N, canaryPercent |-> p]

Strategies ==
    { Parallel(N) : N \in 1..MaxWorkers } \cup
    { Canary(p, N) : p \in {20, 50}, N \in 1..MaxWorkers }

NotSubmitted ==
    [strategy |-> Parallel(1), orchestration |-> "none", ops |-> <<>>,
     batch |-> 0, phase |-> "done", enqueued |-> 0, dequeued |-> 0,
     running |-> [w \in 1..1 |-> 0], cancel |-> FALSE]

Init ==
    /\ provisioningOperations = EmptyMap
    /\ deprovisioningOperations = EmptyMap
    /\ upgradeKymaOperations = EmptyMap
    /\ mu = None
    /\ pc = [p \in Procs |-> "idle"]
    /\ call = [p \in Procs |-> NoCall]
    /\ ret = [p \in Procs |-> NoResult]
    /\ cli = NotCalled
    /\ sched = NotSubmitted
    /\ conv = NotConverted

(***************************************************************************)
(* Entry of a method that takes the mutex.  s.mu.Lock() blocks until the   *)
(* mutex is free, then the caller owns it; the result of the caller's      *)
(* previous call is dropped.                                               *)
(***************************************************************************)
LockNoWait(p, c) ==
    /\ pc[p] = "idle"
    /\ mu' = p
    /\ pc' = [pc EXCEPT ![p] = "locked"]
    /\ call' = [call EXCEPT ![p] = c]
    /\ ret' = [ret EXCEPT ![p] = NoResult]
    /\ UNCHANGED <<maps, outside>>

Lock(p, c) ==
    /\ pc[p] = "idle"
    /\ mu = None
    /\ mu' = p
    /\ pc' = [pc EXCEPT ![p] = "locked"]
    /\ call' = [call EXCEPT ![p] = c]
    /\ ret' = [ret EXCEPT ![p] = NoResult]
    /\ UNCHANGED <<maps, outside>>

(***************************************************************************)
(* Return from a method that holds the mutex: the deferred s.mu.Unlock()   *)
(* runs and the caller sees (val, err).                                    *)
(***************************************************************************)
Return(p, err, val) ==
    /\ ret' = [ret EXCEPT ![p] = Result(call[p], err, val)]
    /\ pc' = [pc EXCEPT ![p] = "idle"]
    /\ call' = [call EXCEPT ![p] = NoCall]
    /\ mu' = None
    /\ UNCHANGED outside

(***************************************************************************)
(* Return from a method that never takes the mutex.                        *)
(***************************************************************************)
ReturnUnlocked(p, c, err, val) ==
    /\ pc[p] = "idle"
    /\ ret' = [ret EXCEPT ![p] = Result(c, err, val)]
    /\ UNCHANGED <<pc, call, mu, outside>>

(***************************************************************************)
(* Fall through from the test to the map write, the mutex still held.      *)
(***************************************************************************)
GotoReleasing(p, label) ==
    /\ pc' = [pc EXCEPT ![p] = label]
    /\ mu' = None
    /\ UNCHANGED <<call, ret, outside>>

Goto(p, label) ==
    /\ pc' = [pc EXCEPT ![p] = label]
    /\ UNCHANGED <<call, ret, mu, outside>>

(***************************************************************************)
(* The optimistic-concurrency test and the version bump of Update.         *)
(***************************************************************************)
VersionConflictNever(oldOp, op) == FALSE

VersionConflict(oldOp, op) == oldOp.Version # op.Version

NextVersionSame(op) == op

NextVersion(op) == [op EXCEPT !.Version = op.Version + 1]

(***************************************************************************)
(* Insert<Kind>Operation                                                   *)
(***************************************************************************)
InsertProvisioningOperation(p, operation) ==
    LET c == Call("InsertProvisioningOperation", operation) IN
    \/ Lock(p, c)
    \/ /\ pc[p] = "locked" /\ call[p] = c
       /\ IF Exists(provisioningOperations, operation.ID)
          THEN Return(p, "AlreadyExists", Nil)
          ELSE Goto(p, "write")
       /\ UNCHANGED maps
    \/ /\ pc[p] = "write" /\ call[p] = c
       /\ provisioningOperations' = Put(provisioningOperations, operation.ID, operation)
       /\ Return(p, Nil, Nil)
       /\ UNCHANGED <<deprovisioningOperations, upgradeKymaOperations>>

InsertDeprovisioningOperation(p, operation) ==
    LET c == Call("InsertDeprovisioningOperation", operation) IN
    \/ Lock(p, c)
    \/ /\ pc[p] = "locked" /\ call[p] = c
       /\ IF Exists(deprovisioningOperations, operation.ID)
          THEN Return(p, "AlreadyExists", Nil)
          ELSE Goto(p, "write")
       /\ UNCHANGED maps
    \/ /\ pc[p] = "write" /\ call[p] = c
       /\ deprovisioningOperations' = Put(deprovisioningOperations, operation.ID, operation)
       /\ Return(p, Nil, Nil)
       /\ UNCHANGED <<provisioningOperations, upgradeKymaOperations>>

InsertUpgradeKymaOperation(p, operation) ==
    LET c == Call("InsertUpgradeKymaOperation", operation) IN
    \/ Lock(p, c)
    \/ /\ pc[p] = "locked" /\ call[p] = c
       /\ IF Exists(upgradeKymaOperations, operation.ID)
          THEN Return(p, "AlreadyExists", Nil)
          ELSE Goto(p, "write")
       /\ UNCHANGED maps
    \/ /\ pc[p] = "write" /\ call[p] = c
       /\ upgradeKymaOperations' = Put(upgradeKymaOperations, operation.ID, operation)
       /\ Return(p, Nil, Nil)
       /\ UNCHANGED <<provisioningOperations, deprovisioningOperations>>

(***************************************************************************)
(* Update<Kind>Operation                                                   *)
(***************************************************************************)
UpdateProvisioningOperation(p, op) ==
    LET c == Call("UpdateProvisioningOperation", op) IN
    \/ Lock(p, c)
    \/ /\ pc[p] = "locked" /\ call[p] = c
       /\ IF ~Exists(provisioningOperations, op.ID)
          THEN Return(p, "NotFound", Nil)
          ELSE IF VersionConflict(provisioningOperations[op.ID], op)
          THEN Return(p, "Conflict", Nil)
          ELSE Goto(p, "write")
       /\ UNCHANGED maps
    \/ /\ pc[p] = "write" /\ call[p] = c
       /\ provisioningOperations' = Put(provisioningOperations, op.ID, NextVersion(op))
       /\ Return(p, Nil, NextVersion(op))
       /\ UNCHANGED <<deprovisioningOperations, upgradeKymaOperations>>

UpdateDeprovisioningOperation(p, op) ==
    LET c == Call("UpdateDeprovisioningOperation", op) IN
    \/ Lock(p, c)
    \/ /\ pc[p] = "locked" /\ call[p] = c
       /\ IF ~Exists(deprovisioningOperations, op.ID)
          THEN Return(p, "NotFound", Nil)
          ELSE IF VersionConflict(deprovisioningOperations[op.ID], op)
          THEN Return(p, "Conflict", Nil)
          ELSE Goto(p, "write")
       /\ UNCHANGED maps
    \/ /\ pc[p] = "write" /\ call[p] = c
       /\ deprovisioningOperations' = Put(deprovisioningOperations, op.ID, NextVersion(op))
       /\ Return(p, Nil, NextVersion(op))
       /\ UNCHANGED <<provisioningOperations, upgradeKymaOperations>>

UpdateUpgradeKymaOperation(p, op) ==
    LET c == Call("UpdateUpgradeKymaOperation", op) IN
    \/ Lock(p, c)
    \/ /\ pc[p] = "locked" /\ call[p] = c
       /\ IF ~Exists(upgradeKymaOperations, op.ID)
          THEN Return(p, "NotFound", Nil)
          ELSE IF VersionConflict(upgradeKymaOperations[op.ID], op)
          THEN Return(p, "Conflict", Nil)
          ELSE Goto(p, "write")
       /\ UNCHANGED maps
    \/ /\ pc[p] = "write" /\ call[p] = c
       /\ upgradeKymaOperations' = Put(upgradeKymaOperations, op.ID, NextVersion(op))
       /\ Return(p, Nil, NextVersion(op))
       /\ UNCHANGED <<provisioningOperations, deprovisioningOperations>>

(***************************************************************************)
(* A lookup "op, exists := s.xOperations[id]" copies the stored struct     *)
(* into a local variable, and "return &op, nil" hands out the address of   *)
(* that local: a pointer is a cell ("local": a variable of its own holding *)
(* val; "stored": the map entry <<kind, id>>).  The code always returns a  *)
(* local cell; AddrOfStored is the aliasing alternative.                   *)
(***************************************************************************)
Collection(k) ==
    CASE k = 1 -> provisioningOperations
      [] k = 2 -> deprovisioningOperations
      [] k = 3 -> upgradeKymaOperations

AddrOfStored(k, id) == [cell |-> "stored", val |-> <<k, id>>]

AddrOfCopy(k, id) == [cell |-> "local", val |-> <<Collection(k)[id]>>]

Deref(ptr) ==
    IF ptr.cell = "local" THEN ptr.val[1] ELSE Collection(ptr.val[1])[ptr.val[2]]

(***************************************************************************)
(* The collection an Insert or Update writes, and the collections a read   *)
(* by id looks into.                                                       *)
(***************************************************************************)
KindOf(method) ==
    CASE method \in {"InsertProvisioningOperation", "UpdateProvisioningOperation"} -> 1
      [] method \in {"InsertDeprovisioningOperation", "UpdateDeprovisioningOperation"} -> 2
      [] method \in {"InsertUpgradeKymaOperation", "UpdateUpgradeKymaOperation"} -> 3

GetKinds(method) ==
    CASE method = "GetProvisioningOperationByID" -> {1}
      [] method = "GetDeprovisioningOperationByID" -> {2}
      [] method = "GetUpgradeKymaOperationByID" -> {3}
      [] method = "GetOperationByID" -> {1, 2, 3}

(***************************************************************************)
(* Get<Kind>OperationByID and GetOperationByID read the maps without       *)
(* taking the mutex.  A read of a map while another goroutine is at its    *)
(* write to the same map is a data race: the read either completes with    *)
(* what the map holds, or the Go runtime stops the process ("fatal error:  *)
(* concurrent map read and map write"), and then no goroutine takes        *)
(* another step.                                                           *)
(***************************************************************************)
Racing(p, method) ==
    \E q \in Procs \ {p} :
        pc[q] = "write" /\ KindOf(call[q].method) \in GetKinds(method)

Fatal ==
    /\ pc' = [q \in Procs |-> "crashed"]
    /\ UNCHANGED <<call, ret, mu, outside>>

Read(p, c, err, val) ==
    /\ pc[p] = "idle"
    /\ \E fatal \in IF Racing(p, c.method) THEN BOOLEAN ELSE {FALSE} :
          IF fatal THEN Fatal ELSE ReturnUnlocked(p, c, err, val)

GetProvisioningOperationByID(p, operationID) ==
    /\ IF Exists(provisioningOperations, operationID)
       THEN Read(p, Call("GetProvisioningOperationByID", operationID),
                 Nil, AddrOfCopy(1, operationID))
       ELSE Read(p, Call("GetProvisioningOperationByID", operationID),
                 "NotFound", Nil)
    /\ UNCHANGED maps

GetDeprovisioningOperationByID(p, operationID) ==
    /\ IF Exists(deprovisioningOperations, operationID)
       THEN Read(p, Call("GetDeprovisioningOperationByID", operationID),
                 Nil, AddrOfCopy(2, operationID))
       ELSE Read(p, Call("GetDeprovisioningOperationByID", operationID),
                 "NotFound", Nil)
    /\ UNCHANGED maps

GetUpgradeKymaOperationByID(p, operationID) ==
    /\ IF Exists(upgradeKymaOperations, operationID)
       THEN Read(p, Call("GetUpgradeKymaOperationByID", operationID),
                 Nil, AddrOfCopy(3, operationID))
       ELSE Read(p, Call("GetUpgradeKymaOperationByID", operationID),
                 "NotFound", Nil)
    /\ UNCHANGED maps

GetOperationByIDProvisioningOnly(p, operationID) ==
    /\ IF Exists(provisioningOperations, operationID)
       THEN Read(p, Call("GetOperationByID", operationID),
                 Nil, AddrOfCopy(1, operationID))
       ELSE Read(p, Call("GetOperationByID", operationID),
                 "NotFound", Nil)
    /\ UNCHANGED maps

GetOperationByID(p, operationID) ==
    LET c == Call("GetOperationByID", operationID)
        res1 == IF Exists(provisioningOperations, operationID)
                THEN <<AddrOfCopy(1, operationID)>> ELSE <<>>
        res2 == IF Exists(deprovisioningOperations, operationID)
                THEN <<AddrOfCopy(2, operationID)>> ELSE res1
        res3 == IF Exists(upgradeKymaOperations, operationID)
                THEN <<AddrOfCopy(3, operationID)>> ELSE res2
    IN /\ IF res3 = <<>>
          THEN Read(p, c, "NotFound", Nil)
          ELSE Read(p, c, Nil, res3[1])
       /\ UNCHANGED maps

(***************************************************************************)
(* The caller of a Get writes a field through the pointer it was handed    *)
(* ("operation.State = ..."), as the process steps do before they call     *)
(* Update.  The write lands in the cell the pointer names.                 *)
(***************************************************************************)
GetMethods == {"GetProvisioningOperationByID", "GetDeprovisioningOperationByID",
               "GetUpgradeKymaOperationByID", "GetOperationByID"}

HoldsPointer(p) == ret[p].call.method \in GetMethods /\ ret[p].err = Nil

WriteThrough(p, state) ==
    /\ pc[p] = "idle"
    /\ HoldsPointer(p)
    /\ Deref(ret[p].val).State # state
    /\ IF ret[p].val.cell = "local"
       THEN /\ ret' = [ret EXCEPT ![p].val.val =
                                   <<[Deref(ret[p].val) EXCEPT !.State = state]>>]
            /\ UNCHANGED maps
       ELSE LET k == ret[p].val.val[1]
                id == ret[p].val.val[2]
                Written(m, kind) ==
                    IF k = kind THEN [m EXCEPT ![id].State = state] ELSE m
            IN /\ provisioningOperations' = Written(provisioningOperations, 1)
               /\ deprovisioningOperations' = Written(deprovisioningOperations, 2)
               /\ upgradeKymaOperations' = Written(upgradeKymaOperations, 3)
               /\ UNCHANGED ret
    /\ UNCHANGED <<pc, call, mu, outside>>

(***************************************************************************)
(* ValidateTransformRuntimeTargetOpts(targetInputs, targetExcludeInputs,   *)
(* &targetSpec) on a fresh target spec.  The call makes the length test;   *)
(* each step of IncludeLoop and then of ExcludeLoop is one call of         *)
(* parseRuntimeTarget from that loop; the first error returns.             *)
(***************************************************************************)
NoTargetsNever(targetInputs) == FALSE

NoTargets(targetInputs) == Len(targetInputs) = 0

EnterLoops(c, loop, n) ==
    IF loop = "include" /\ n < Len(c.targetInputs)
    THEN [c EXCEPT !.pc = "include", !.n = n]
    ELSE IF loop = "include" /\ 0 < Len(c.targetExcludeInputs)
    THEN [c EXCEPT !.pc = "exclude", !.n = 0]
    ELSE IF loop = "exclude" /\ n < Len(c.targetExcludeInputs)
    THEN [c EXCEPT !.pc = "exclude", !.n = n]
    ELSE [c EXCEPT !.pc = "returned", !.n = 0]

ValidateTransformRuntimeTargetOpts(targetInputs, targetExcludeInputs) ==
    /\ cli.pc = "start"
    /\ LET c == [cli EXCEPT !.targetInputs = targetInputs,
                            !.targetExcludeInputs = targetExcludeInputs]
       IN cli' = IF NoTargets(targetInputs)
                 THEN [c EXCEPT !.pc = "returned", !.err = "NoTargets"]
                 ELSE EnterLoops(c, "include", 0)
    /\ UNCHANGED <<store, sched, conv>>

IncludeLoop ==
    /\ cli.pc = "include"
    /\ LET r == parseRuntimeTarget(cli.targetInputs[cli.n + 1],
                                   cli.targetSpec.Include, TRUE)
       IN cli' = IF r.err # Nil
                 THEN [cli EXCEPT !.pc = "returned", !.n = 0, !.err = r.err]
                 ELSE EnterLoops([cli EXCEPT !.targetSpec.Include = r.targets],
                                 "include", cli.n + 1)
    /\ UNCHANGED <<store, sched, conv>>

ExcludeLoop ==
    /\ cli.pc = "exclude"
    /\ LET r == parseRuntimeTarget(cli.targetExcludeInputs[cli.n + 1],
                                   cli.targetSpec.Exclude, FALSE)
       IN cli' = IF r.err # Nil
                 THEN [cli EXCEPT !.pc = "returned", !.n = 0, !.err = r.err]
                 ELSE EnterLoops([cli EXCEPT !.targetSpec.Exclude = r.targets],
                                 "exclude", cli.n + 1)
    /\ UNCHANGED <<store, sched, conv>>

(***************************************************************************)
(* Submission: the Manager creates the orchestration, resolves a nonempty  *)
(* runtime list, creates one pending RuntimeOperation per runtime and      *)
(* hands them to the strategy (pending -> in-progress), which spawns N     *)
(* workers.                                                                *)
(***************************************************************************)
WorkersMore(N) == N + 1

Workers(N) == N

Submit(strategy, len) ==
    /\ sched.orchestration = "none"
    /\ sched' = [strategy |-> strategy,
                 orchestration |-> InProgress,
                 ops |-> [i \in 1..len |-> Pending],
                 batch |-> IF strategy.type = "canary"
                           THEN BatchSize(strategy.canaryPercent, len) ELSE 0,
                 phase |-> IF strategy.type = "canary" THEN "batch" ELSE "remainder",
                 enqueued |-> 0, dequeued |-> 0,
                 running |-> [w \in 1..Workers(strategy.workers) |-> 0],
                 cancel |-> FALSE]
    /\ UNCHANGED <<store, cli, conv>>

(***************************************************************************)
(* The operations of the current phase, and the workers that serve it: the *)
(* batch runs as Parallel(min(N, |batch|)), the remainder as Parallel(N).  *)
(***************************************************************************)
PhaseEnd == IF sched.phase = "batch" THEN sched.batch ELSE Len(sched.ops)

PhaseWorkers ==
    IF sched.phase = "batch"
    THEN 1..Min(Len(sched.running), sched.batch)
    ELSE 1..Len(sched.running)

QueueCap == 2 * sched.strategy.workers

(***************************************************************************)
(* Queue.Add by the strategy: the next operation in resolved order;        *)
(* blocks while the queue is full; nothing is enqueued after cancellation  *)
(* or once the orchestration has left in-progress.                         *)
(***************************************************************************)
Add ==
    /\ sched.phase \in {"batch", "remainder"}
    /\ sched.orchestration = InProgress
    /\ ~sched.cancel
    /\ sched.enqueued < PhaseEnd
    /\ sched.enqueued - sched.dequeued < QueueCap
    /\ sched' = [sched EXCEPT !.enqueued = @ + 1]
    /\ UNCHANGED <<store, cli, conv>>

(***************************************************************************)
(* A waiting worker's Queue.Get returns the oldest queued operation and    *)
(* Executor.run starts on it: the cancellation signal is checked before    *)
(* the first step (canceled), else the operation enters in-progress.       *)
(***************************************************************************)
Get(w) ==
    /\ sched.phase \in {"batch", "remainder"}
    /\ w \in PhaseWorkers
    /\ sched.running[w] = 0
    /\ sched.dequeued < sched.enqueued
    /\ LET op == sched.dequeued + 1
       IN sched' = IF sched.cancel
                   THEN [sched EXCEPT !.dequeued = op, !.ops[op] = Canceled]
                   ELSE [sched EXCEPT !.dequeued = op, !.ops[op] = InProgress,
                                      !.running[w] = op]
    /\ UNCHANGED <<store, cli, conv>>

(***************************************************************************)
(* Executor.run ends: the step chain is exhausted (succeeded), a step      *)
(* failed permanently or timed out (failed), or the operation observed     *)
(* the cancellation signal (canceled).                                     *)
(***************************************************************************)
Run(w, outcome) ==
    /\ w \in DOMAIN sched.running
    /\ sched.running[w] # 0
    /\ outcome = Canceled => sched.cancel
    /\ sched' = [sched EXCEPT !.ops[sched.running[w]] = outcome, !.running[w] = 0]
    /\ UNCHANGED <<store, cli, conv>>

(***************************************************************************)
(* The strategy, once the workers of a phase have drained.  After the      *)
(* batch: all succeeded, proceed with the remainder; otherwise the         *)
(* orchestration goes to failed (from in-progress) and the operations not  *)
(* started are canceled.  Under cancellation the operations not started    *)
(* are canceled as well.                                                   *)
(***************************************************************************)
Drained ==
    /\ \A w \in DOMAIN sched.running : sched.running[w] = 0
    /\ sched.dequeued = sched.enqueued

CancelRemaining(ops) ==
    [i \in 1..Len(ops) |-> IF ops[i] = Pending THEN Canceled ELSE ops[i]]

BatchTerminal == \A i \in 1..sched.batch : sched.ops[i] \in Terminal

BatchSucceeded == \A i \in 1..sched.batch : sched.ops[i] = Succeeded

Strategy ==
    /\ sched.phase \in {"batch", "remainder"}
    /\ Drained
    /\ \/ sched.enqueued = PhaseEnd
       \/ sched.cancel
       \/ sched.orchestration # InProgress
    /\ sched' =
         IF sched.phase = "batch" /\ sched.enqueued = sched.batch
            /\ BatchSucceeded
            /\ ~sched.cancel /\ sched.orchestration = InProgress
         THEN [sched EXCEPT !.phase = "remainder"]
         ELSE IF sched.phase = "batch"
         THEN [sched EXCEPT !.phase = "done",
                            !.ops = CancelRemaining(sched.ops),
                            !.orchestration =
                                IF @ = InProgress /\ ~sched.cancel THEN Failed ELSE @]
         ELSE [sched EXCEPT !.phase = "done",
                            !.ops = CancelRemaining(sched.ops)]
    /\ UNCHANGED <<store, cli, conv>>

(***************************************************************************)
(* PUT /orchestrations/{id}/cancel on an orchestration in progress:        *)
(* in-progress -> canceling, and the cancellation signal is raised.        *)
(***************************************************************************)
Cancel ==
    /\ sched.orchestration = InProgress
    /\ sched' = [sched EXCEPT !.orchestration = Canceling, !.cancel = TRUE]
    /\ UNCHANGED <<store, cli, conv>>

(***************************************************************************)
(* The Manager polls the aggregate operation state and follows the state   *)
(* machine of the Orchestration.                                           *)
(***************************************************************************)
AllTerminal(ops) == \A i \in 1..Len(ops) : ops[i] \in Terminal

Manager ==
    /\ \/ /\ sched.orchestration = InProgress
          /\ \E i \in 1..Len(sched.ops) : sched.ops[i] = Failed
          /\ sched' = [sched EXCEPT !.orchestration = Failed]
       \/ /\ sched.orchestration = InProgress
          /\ AllTerminal(sched.ops)
          /\ \A i \in 1..Len(sched.ops) : sched.ops[i] \in {Succeeded, Canceled}
          /\ sched' = [sched EXCEPT !.orchestration = Succeeded]
       \/ /\ sched.orchestration = Canceling
          /\ AllTerminal(sched.ops)
          /\ sched' = [sched EXCEPT !.orchestration = Canceled]
    /\ UNCHANGED <<store, cli, conv>>

(***************************************************************************)
(* ApplyUpgradingKymaOperations(dto, oprs, totalCount): the counts, then   *)
(* one pkg.Operation per element, filled by applyOperation from the loop   *)
(* variable.  o records, for every cell of the loop variable, the value    *)
(* it holds when the function returns: the last element assigned to it.    *)
(***************************************************************************)
ApplyUpgradingKymaOperations(oprs, totalCount, semantics) ==
    /\ conv.pc = "start"
    /\ LET cells == { LoopVar(semantics, i) : i \in 1..Len(oprs) }
           last(cell) == CHOOSE i \in 1..Len(oprs) :
                            /\ LoopVar(semantics, i) = cell
                            /\ \A j \in 1..Len(oprs) :
                                  LoopVar(semantics, j) = cell => j <= i
       IN conv' = [pc |-> "returned", oprs |-> oprs, totalCount |-> totalCount,
                   UpgradingKyma |->
                       [TotalCount |-> totalCount,
                        Count |-> Len(oprs),
                        Data |-> [i \in 1..Len(oprs) |->
                                    applyOperation(oprs[i], LoopVar(semantics, i),
                                                   PkgOperation)]],
                   o |-> [cell \in cells |-> oprs[last(cell)]]]
    /\ UNCHANGED <<store, cli, sched>>

(***************************************************************************)
(* Operations handed to the upgrade collection in SpecList: two ids, one   *)
(* version, every creation time up to MaxTime, two orchestrations, two     *)
(* states.  Ids are free-form strings, so an orchestration id may spell    *)
(* the same as an operation id ("a").                                      *)
(***************************************************************************)
OrchestrationIDs == {"a", "o"}

ListOperations ==
    { Operation(id, 0, t, "i1", o, "r1", st) :
        id \in {"a", "b"}, t \in 1..MaxTime, o \in OrchestrationIDs,
        st \in {InProgress, Succeeded} }

(***************************************************************************)
(* pagination.ConvertPageAndPageSizeToOffset, for page >= 1.               *)
(***************************************************************************)
ConvertPageAndPageSizeToOffset(pageSize, page) == (page - 1) * pageSize

(***************************************************************************)
(* getUpgradeSortedByCreatedAt: the map values, in map iteration order,    *)
(* sorted by sort.Slice on CreatedAt alone.  Map iteration order is        *)
(* unspecified and sort.Slice is not stable, so every arrangement in which *)
(* no element is Before an earlier one is a possible outcome.              *)
(***************************************************************************)
Before(x, y) == x.CreatedAt < y.CreatedAt

getUpgradeSortedByCreatedAt(operations) ==
    LET n == Cardinality(DOMAIN operations)
        orders == { f \in [1..n -> DOMAIN operations] :
                      /\ \A i, j \in 1..n : i # j => f[i] # f[j]
                      /\ \A i, j \in 1..n :
                            i < j => ~Before(operations[f[j]], operations[f[i]]) }
    IN { [i \in 1..n |-> operations[f[i]]] : f \in orders }

(***************************************************************************)
(* Body of ListUpgradeKymaOperationsByOrchestrationID once the mutex is    *)
(* held, for one outcome of the sort.  The filtered slice built first is   *)
(* discarded; the loop runs i over [offset, min(offset+pageSize,           *)
(* len+offset)) and indexes sortedOperations[i], which panics when         *)
(* i >= len; each element is looked up in the map under its                *)
(* OrchestrationID; the third result is the size of the whole map.         *)
(***************************************************************************)
ListPage(sortedOperations, pageSize, page) ==
    LET offset == ConvertPageAndPageSizeToOffset(pageSize, page)
        n == Len(sortedOperations)
        hi == Min(offset + pageSize, n + offset)
    IN IF hi > offset /\ hi > n
       THEN [err |-> "panic", val |-> Nil]
       ELSE [err |-> Nil,
             val |-> [items |-> [i \in 1..(hi - offset) |->
                                   Lookup(upgradeKymaOperations,
                                          sortedOperations[offset + i].OrchestrationID)],
                      count |-> hi - offset,
                      total |-> Cardinality(DOMAIN upgradeKymaOperations)]]

ListResults(orchestrationID, pageSize, page) ==
    { ListPage(sortedOperations, pageSize, page) :
        sortedOperations \in getUpgradeSortedByCreatedAt(upgradeKymaOperations) }

ListArgs(orchestrationID, pageSize, page) ==
    [orchestrationID |-> orchestrationID, pageSize |-> pageSize, page |-> page]

ListUpgradeKymaOperationsByOrchestrationID(p, orchestrationID, pageSize, page) ==
    LET c == Call("ListUpgradeKymaOperationsByOrchestrationID",
                  ListArgs(orchestrationID, pageSize, page)) IN
    \/ Lock(p, c)
    \/ /\ pc[p] = "locked" /\ call[p] = c
       /\ \E r \in ListResults(orchestrationID, pageSize, page) :
             Return(p, r.err, r.val)
       /\ UNCHANGED maps

(***************************************************************************)
(* ListUpgradeKymaOperationsByInstanceID: under the mutex.  The loop that  *)
(* collects the operations of the instance fills result, which is then     *)
(* replaced by an empty slice and never returned; the method returns the   *)
(* whole collection sorted by createdAt.                                   *)
(***************************************************************************)
ListUpgradeKymaOperationsByInstanceID(p, instanceID) ==
    LET c == Call("ListUpgradeKymaOperationsByInstanceID", instanceID) IN
    \/ Lock(p, c)
    \/ /\ pc[p] = "locked" /\ call[p] = c
       /\ \E sortedOperations \in getUpgradeSortedByCreatedAt(upgradeKymaOperations) :
             Return(p, Nil, sortedOperations)
       /\ UNCHANGED maps

(***************************************************************************)
(* GetOperationStatsForOrchestration: under the mutex, a count per state   *)
(* that starts from zero for in progress, succeeded and failed and is      *)
(* incremented for every operation of the upgrade collection; the          *)
(* orchestrationID parameter is not read.                                  *)
(***************************************************************************)
OperationStats(operations) ==
    [st \in {InProgress, Succeeded, Failed}
             \cup { operations[id].State : id \in DOMAIN operations } |->
        Cardinality({ id \in DOMAIN operations : operations[id].State = st })]

GetOperationStatsForOrchestration(p, orchestrationID) ==
    LET c == Call("GetOperationStatsForOrchestration", orchestrationID) IN
    \/ Lock(p, c)
    \/ /\ pc[p] = "locked" /\ call[p] = c
       /\ Return(p, Nil, OperationStats(upgradeKymaOperations))
       /\ UNCHANGED maps

(***************************************************************************)
(* Spec: one goroutine calls every Insert, Update and Get of the three     *)
(* kinds, in any order.                                                    *)
(***************************************************************************)
Next ==
    \E p \in Callers :
        \/ \E operation \in Operations :
              \/ InsertProvisioningOperation(p, operation)
              \/ InsertDeprovisioningOperation(p, operation)
              \/ InsertUpgradeKymaOperation(p, operation)
              \/ UpdateProvisioningOperation(p, operation)
              \/ UpdateDeprovisioningOperation(p, operation)
              \/ UpdateUpgradeKymaOperation(p, operation)
        \/ \E operationID \in OperationIDs :
              \/ GetProvisioningOperationByID(p, operationID)
              \/ GetDeprovisioningOperationByID(p, operationID)
              \/ GetUpgradeKymaOperationByID(p, operationID)
              \/ GetOperationByID(p, operationID)

Spec == Init /\ [][Next]_vars

(***************************************************************************)
(* SpecRace: two goroutines race on the provisioning and the upgrade       *)
(* collection.                                                             *)
(***************************************************************************)
NextRace ==
    \E p \in Procs : \E operation \in Operations :
        \/ InsertProvisioningOperation(p, operation)
        \/ InsertUpgradeKymaOperation(p, operation)
        \/ UpdateProvisioningOperation(p, operation)
        \/ UpdateUpgradeKymaOperation(p, operation)

SpecRace == Init /\ [][NextRace]_vars

(***************************************************************************)
(* SpecList: one goroutine fills and updates the upgrade collection,       *)
(* lists it page by page and asks for its statistics.                      *)
(***************************************************************************)
NextList ==
    \E p \in Callers :
        \/ \E operation \in ListOperations :
              \/ InsertUpgradeKymaOperation(p, operation)
              \/ UpdateUpgradeKymaOperation(p, operation)
        \/ \E orchestrationID \in OrchestrationIDs, pageSize \in 1..MaxPageSize,
              page \in 1..MaxPage :
              ListUpgradeKymaOperationsByOrchestrationID(p, orchestrationID, pageSize, page)
        \/ \E orchestrationID \in OrchestrationIDs :
              GetOperationStatsForOrchestration(p, orchestrationID)

SpecList == Init /\ [][NextList]_vars

(***************************************************************************)
(* SpecMutex: two goroutines race on every Insert and Update of the three  *)
(* kinds, with one operation value.                                        *)
(***************************************************************************)
MutexOperations == { Operation("a", 0, 1, "i1", "o1", "r1", InProgress) }

NextMutex ==
    \E p \in Procs : \E operation \in MutexOperations :
        \/ InsertProvisioningOperation(p, operation)
        \/ InsertDeprovisioningOperation(p, operation)
        \/ InsertUpgradeKymaOperation(p, operation)
        \/ UpdateProvisioningOperation(p, operation)
        \/ UpdateDeprovisioningOperation(p, operation)
        \/ UpdateUpgradeKymaOperation(p, operation)

SpecMutex == Init /\ [][NextMutex]_vars

(***************************************************************************)
(* SpecSnap: two goroutines on the upgrade collection; each may insert,    *)
(* update, read by id and write through the pointer a read returned.       *)
(***************************************************************************)
NextSnap ==
    \E p \in Procs : \E operation \in Operations :
        \/ InsertUpgradeKymaOperation(p, operation)
        \/ UpdateUpgradeKymaOperation(p, operation)
        \/ GetUpgradeKymaOperationByID(p, operation.ID)
        \/ GetOperationByID(p, operation.ID)
        \/ WriteThrough(p, operation.State)

SpecSnap == Init /\ [][NextSnap]_vars

(***************************************************************************)
(* SpecKeep: one caller on the upgrade collection with two ids; the        *)
(* operations it passes differ in version, instance and state.  Every      *)
(* method that touches the collection is called.                           *)
(***************************************************************************)
KeepOperations ==
    { Operation(id, v, 1, i, "o", "r1", st) :
        id \in {"a", "b"}, v \in 0..MaxVersion, i \in {"i1", "i2"},
        st \in {InProgress, Succeeded} }

NextKeep ==
    \E p \in Callers :
        \/ \E operation \in KeepOperations :
              \/ InsertUpgradeKymaOperation(p, operation)
              \/ UpdateUpgradeKymaOperation(p, operation)
              \/ GetUpgradeKymaOperationByID(p, operation.ID)
              \/ GetOperationByID(p, operation.ID)
        \/ ListUpgradeKymaOperationsByOrchestrationID(p, "o", MaxPageSize, 1)
        \/ \E instanceID \in {"i1", "i2"} :
              ListUpgradeKymaOperationsByInstanceID(p, instanceID)
        \/ GetOperationStatsForOrchestration(p, "o")

SpecKeep == Init /\ [][NextKeep]_vars

(***************************************************************************)
(* SpecOpts: one run of the CLI's option validation, over every pair of    *)
(* --target and --target-exclude lists of up to MaxInputs values.          *)
(***************************************************************************)
NextOpts ==
    \/ /\ cli.pc = "start"
       /\ \E targetInputs \in TargetInputs, targetExcludeInputs \in TargetInputs :
             ValidateTransformRuntimeTargetOpts(targetInputs, targetExcludeInputs)
    \/ IncludeLoop
    \/ ExcludeLoop

SpecOpts == Init /\ [][NextOpts]_vars

(***************************************************************************)
(* SpecSched: one orchestration of up to MaxOps runtimes under every       *)
(* strategy with up to MaxWorkers workers.                                 *)
(***************************************************************************)
NextSched ==
    \/ /\ sched.orchestration = "none"
       /\ \E strategy \in Strategies, len \in 1..MaxOps : Submit(strategy, len)
    \/ Add
    \/ \E w \in 1..(MaxWorkers + 1) : Get(w)
    \/ \E w \in 1..(MaxWorkers + 1), outcome \in Terminal : Run(w, outcome)
    \/ Strategy
    \/ Cancel
    \/ Manager

SpecSched == Init /\ [][NextSched]_vars

(***************************************************************************)
(* SpecRead: two goroutines on the upgrade collection; each may insert,    *)
(* update and read by id.                                                  *)
(***************************************************************************)
NextRead ==
    \E p \in Procs : \E operation \in Operations :
        \/ InsertUpgradeKymaOperation(p, operation)
        \/ UpdateUpgradeKymaOperation(p, operation)
        \/ GetUpgradeKymaOperationByID(p, operation.ID)
        \/ GetOperationByID(p, operation.ID)

SpecRead == Init /\ [][NextRead]_vars

(***************************************************************************)
(* SpecConv: one call of the converter on every slice of up to MaxOprs     *)
(* operations.                                                             *)
(***************************************************************************)
NextConv ==
    /\ conv.pc = "start"
    /\ \E oprs \in Oprs, totalCount \in 0..MaxOprs, semantics \in LoopVarSemantics :
          ApplyUpgradingKymaOperations(oprs, totalCount, semantics)

SpecConv == Init /\ [][NextConv]_vars

(***************************************************************************)
(* Vocabulary of the properties.                                           *)
(***************************************************************************)
InsertMethods ==
    {"InsertProvisioningOperation", "InsertDeprovisioningOperation",
     "InsertUpgradeKymaOperation"}

UpdateMethods ==
    {"UpdateProvisioningOperation", "UpdateDeprovisioningOperation",
     "UpdateUpgradeKymaOperation"}

IsInsert(c) == c.method \in InsertMethods

IsUpdate(c) == c.method \in UpdateMethods

\* Index in maps of the collection a mutating method works on.
Stored(c) == c.arg.ID \in DOMAIN maps[KindOf(c.method)]

StoredOp(c) == maps[KindOf(c.method)][c.arg.ID]

Bumped(op) == [op EXCEPT !.Version = op.Version + 1]

\* p takes a step of its call.
Steps(p) == pc'[p] # pc[p]

(***************************************************************************)
(* C1: for each kind, an Update whose operation carries a version          *)
(* different from the stored one returns Conflict, and neither that step   *)
(* nor any other step of a call that ends in Conflict changes a stored     *)
(* entity.                                                                 *)
(***************************************************************************)
C1_StaleUpdateConflicts ==
    [][\A p \in Procs :
         /\ (/\ pc[p] = "locked" /\ IsUpdate(call[p]) /\ Steps(p)
             /\ Stored(call[p])
             /\ StoredOp(call[p]).Version # call[p].arg.Version)
            => (pc'[p] = "idle" /\ ret'[p].err = "Conflict" /\ maps' = maps)
         /\ (pc[p] = "idle" /\ Steps(p) /\ IsUpdate(call'[p]))
            => maps' = maps]_vars

W_C1 ==
    \E p \in Procs :
        /\ IsUpdate(ret[p].call) /\ ret[p].err = "Conflict"
        /\ \A k \in 1..3 : DOMAIN maps[k] # {}

(***************************************************************************)
(* C2: of the callers that call Update on one id with the same version,    *)
(* at most one succeeds; the caller whose version equals the stored one    *)
(* at its test goes on to write, its write finds that version still        *)
(* stored and leaves its own value with the version plus 1; a caller whose *)
(* version differs gets Conflict.                                          *)
(***************************************************************************)
SameUpdate(p, q) ==
    /\ IsUpdate(ret[p].call)
    /\ ret[q].call.method = ret[p].call.method
    /\ ret[q].call.arg.ID = ret[p].call.arg.ID
    /\ ret[q].call.arg.Version = ret[p].call.arg.Version

C2_OneWinnerPerVersion ==
    /\ [](\A p, q \in Procs :
            (p # q /\ SameUpdate(p, q)) => ~(ret[p].err = Nil /\ ret[q].err = Nil))
    /\ [][\A p \in Procs :
            /\ (/\ pc[p] = "locked" /\ IsUpdate(call[p]) /\ Steps(p)
                /\ Stored(call[p]))
               => IF StoredOp(call[p]).Version = call[p].arg.Version
                  THEN pc'[p] = "write"
                  ELSE ret'[p].err = "Conflict" /\ maps' = maps
            /\ (pc[p] = "write" /\ IsUpdate(call[p]) /\ Steps(p))
               => /\ Stored(call[p])
                  /\ StoredOp(call[p]).Version = call[p].arg.Version
                  /\ maps'[KindOf(call[p].method)][call[p].arg.ID] = Bumped(call[p].arg)
                  /\ ret'[p].err = Nil
                  /\ ret'[p].val = Bumped(call[p].arg)]_vars

W_C2 ==
    \E p, q \in Procs :
        /\ p # q /\ SameUpdate(p, q)
        /\ ret[p].err = Nil /\ ret[q].err = "Conflict"
        /\ ret[p].call.arg.State # ret[q].call.arg.State
        /\ maps[KindOf(ret[p].call.method)][ret[p].call.arg.ID] = ret[p].val

(***************************************************************************)
(* C3: a stored id stays stored and its version never decreases; a stored  *)
(* entity changes only in the step in which an Update of that id returns   *)
(* without error, and then its version is the previous one plus 1 and the  *)
(* returned operation is the stored one.                                   *)
(***************************************************************************)
C3_VersionMonotonic ==
    [][\A k \in 1..3 : \A id \in DOMAIN maps[k] :
         /\ id \in DOMAIN maps'[k]
         /\ maps'[k][id].Version >= maps[k][id].Version
         /\ (\E p \in Procs : /\ pc[p] = "write" /\ IsUpdate(call[p]) /\ Steps(p)
                               /\ KindOf(call[p].method) = k /\ call[p].arg.ID = id)
            => maps'[k][id].Version = maps[k][id].Version + 1
         /\ maps'[k][id] # maps[k][id]
            => \E p \in Procs :
                  /\ pc[p] = "write" /\ IsUpdate(call[p])
                  /\ KindOf(call[p].method) = k /\ call[p].arg.ID = id
                  /\ ret'[p].err = Nil
                  /\ ret'[p].val = maps'[k][id]
                  /\ ret'[p].val.Version = maps[k][id].Version + 1]_vars

W_C3 ==
    \E p \in Procs :
        /\ IsUpdate(ret[p].call) /\ ret[p].err = Nil
        /\ ret[p].val.Version = ret[p].call.arg.Version + 1
        /\ maps[KindOf(ret[p].call.method)][ret[p].call.arg.ID] = ret[p].val

(***************************************************************************)
(* C4: an Insert whose id is stored in the collection of its kind returns  *)
(* AlreadyExists and changes nothing; an Insert under an unused id stores  *)
(* exactly its operation under that id; of the callers that Insert one id  *)
(* into one collection at most one succeeds.                               *)
(***************************************************************************)
SameInsert(p, q) ==
    /\ IsInsert(ret[p].call)
    /\ ret[q].call.method = ret[p].call.method
    /\ ret[q].call.arg.ID = ret[p].call.arg.ID

C4_InsertOnce ==
    /\ [](\A p, q \in Procs :
            (p # q /\ SameInsert(p, q)) => ~(ret[p].err = Nil /\ ret[q].err = Nil))
    /\ [][\A p \in Procs :
            /\ (pc[p] = "locked" /\ IsInsert(call[p]) /\ Steps(p))
               => /\ maps' = maps
                  /\ IF Stored(call[p])
                     THEN pc'[p] = "idle" /\ ret'[p].err = "AlreadyExists"
                     ELSE pc'[p] = "write"
            /\ (pc[p] = "write" /\ IsInsert(call[p]) /\ Steps(p))
               => /\ ~Stored(call[p])
                  /\ ret'[p].err = Nil
                  /\ \A k \in 1..3 :
                        maps'[k] = IF k = KindOf(call[p].method)
                                   THEN Put(maps[k], call[p].arg.ID, call[p].arg)
                                   ELSE maps[k]]_vars

W_C4 ==
    \E p, q \in Procs :
        /\ p # q /\ SameInsert(p, q)
        /\ ret[p].err = Nil /\ ret[q].err = "AlreadyExists"
        /\ ret[p].call.arg # ret[q].call.arg
        /\ maps[KindOf(ret[p].call.method)][ret[p].call.arg.ID] = ret[p].call.arg

(***************************************************************************)
(* C5: no operation id is stored in more than one of the three kind        *)
(* collections.                                                            *)
(***************************************************************************)
C5_IDsUniqueAcrossKinds ==
    \A j, k \in 1..3 : j # k => DOMAIN maps[j] \cap DOMAIN maps[k] = {}

(***************************************************************************)
(* Vocabulary of the list properties.                                      *)
(***************************************************************************)
IsList(c) == c.method = "ListUpgradeKymaOperationsByOrchestrationID"

Range(m) == { m[k] : k \in DOMAIN m }

\* The stored upgrade operations of orchestration o.
Matching(o) == { op \in Range(upgradeKymaOperations) : op.OrchestrationID = o }

\* Order of the id strings of the model ("" < "a" < "b").
IDRank(id) == CASE id = "" -> 0 [] id = "a" -> 1 [] id = "b" -> 2 [] OTHER -> 3

\* createdAt ascending, ties broken by id ascending.
Precedes(x, y) ==
    \/ x.CreatedAt < y.CreatedAt
    \/ x.CreatedAt = y.CreatedAt /\ IDRank(x.ID) < IDRank(y.ID)

OrderedListOf(S) ==
    CHOOSE s \in [1..Cardinality(S) -> S] :
        \A i, j \in 1..Cardinality(S) : i < j => Precedes(s[i], s[j])

\* Elements [offset, min(offset+pageSize, n)) of the ordered matching list.
ExpectedPage(o, pageSize, page) ==
    LET all == OrderedListOf(Matching(o))
        n == Len(all)
        offset == (page - 1) * pageSize
        last == Min(offset + pageSize, n)
    IN IF offset >= n THEN <<>> ELSE [i \in 1..(last - offset) |-> all[offset + i]]

NonTerminal(op) == op.State \in {"pending", InProgress}

(***************************************************************************)
(* C6: at most one stored upgrade operation in a non-terminal state        *)
(* exists for any pair (orchestrationID, runtimeID).                       *)
(***************************************************************************)
C6_OneActivePerRuntime ==
    \A x, y \in Range(upgradeKymaOperations) :
        (/\ NonTerminal(x) /\ NonTerminal(y)
         /\ x.OrchestrationID = y.OrchestrationID
         /\ x.RuntimeID = y.RuntimeID) => x = y

(***************************************************************************)
(* C7: the items of a list call are stored upgrade operations of the       *)
(* orchestration asked for, and a first page that is large enough holds    *)
(* every stored operation of that orchestration exactly once.              *)
(***************************************************************************)
C7_ListOnlyOrchestration ==
    \A p \in Procs :
        (IsList(ret[p].call) /\ ret[p].err = Nil) =>
            LET a == ret[p].call.arg
                items == ret[p].val.items
            IN /\ \A i \in DOMAIN items : items[i] \in Matching(a.orchestrationID)
               /\ (a.page = 1 /\ a.pageSize >= Cardinality(Matching(a.orchestrationID)))
                  => \A op \in Matching(a.orchestrationID) :
                        Cardinality({ i \in DOMAIN items : items[i] = op }) = 1

(***************************************************************************)
(* C8: for page >= 1 and pageSize >= 1 a list call completes without       *)
(* error and returns exactly the elements [offset, min(offset+pageSize,    *)
(* n)) of the ordered list of the n matching operations, with              *)
(* offset = (page-1)*pageSize; a page beyond the end is empty.             *)
(***************************************************************************)
C8_ListPageExact ==
    \A p \in Procs :
        IsList(ret[p].call) =>
            /\ ret[p].err = Nil
            /\ ret[p].val.items =
                  ExpectedPage(ret[p].call.arg.orchestrationID,
                               ret[p].call.arg.pageSize, ret[p].call.arg.page)

(***************************************************************************)
(* C9: the items of a list call are in createdAt order with ties broken    *)
(* by id, and a list call with given arguments has one possible item       *)
(* sequence on a given store.                                              *)
(***************************************************************************)
C9_ListDeterministicOrder ==
    /\ \A p \in Procs :
          (IsList(ret[p].call) /\ ret[p].err = Nil) =>
              LET items == ret[p].val.items
              IN \A i, j \in DOMAIN items : i < j => ~Precedes(items[j], items[i])
    /\ \A o \in OrchestrationIDs, pageSize \in 1..MaxPageSize, page \in 1..MaxPage :
          \A r1, r2 \in ListResults(o, pageSize, page) :
              (r1.err = Nil /\ r2.err = Nil) => r1.val.items = r2.val.items

(***************************************************************************)
(* C10: the second result of a list call is the number of items on the     *)
(* returned page, at most pageSize, and the third is the number of stored  *)
(* upgrade operations of the orchestration asked for.                      *)
(***************************************************************************)
C10_ListCounts ==
    \A p \in Procs :
        (IsList(ret[p].call) /\ ret[p].err = Nil) =>
            /\ ret[p].val.count = Len(ret[p].val.items)
            /\ ret[p].val.count <= ret[p].call.arg.pageSize
            /\ ret[p].val.total = Cardinality(Matching(ret[p].call.arg.orchestrationID))

(***************************************************************************)
(* C11: for every state s, GetOperationStatsForOrchestration(o) returns    *)
(* the number of stored upgrade operations of orchestration o in state s,  *)
(* and the counts sum to the number of operations of o.                    *)
(***************************************************************************)
IsStats(c) == c.method = "GetOperationStatsForOrchestration"

C11_StatsPerOrchestration ==
    \A p \in Procs :
        IsStats(ret[p].call) =>
            /\ \A st \in DOMAIN ret[p].val :
                  ret[p].val[st] =
                      Cardinality({ op \in Matching(ret[p].call.arg) : op.State = st })
            /\ \A op \in Matching(ret[p].call.arg) : op.State \in DOMAIN ret[p].val

(***************************************************************************)
(* C12: every Insert and Update makes its test and its write while it      *)
(* holds the mutex: at most one goroutine is between Lock and return, that *)
(* goroutine owns the mutex, a collection changes only in the write step   *)
(* of the owner, and at that step the outcome of the test still holds      *)
(* (the id still unused for Insert, the version still equal for Update).   *)
(***************************************************************************)
InCritical(p) == pc[p] \in {"locked", "write"}

C12_MutationsUnderMutex ==
    /\ [](\A p, q \in Procs :
            /\ (InCritical(p) /\ InCritical(q)) => p = q
            /\ InCritical(p) => mu = p)
    /\ [][/\ maps' # maps
             => \E p \in Procs : pc[p] = "write" /\ mu = p /\ Steps(p)
          /\ \A p \in Procs :
                (pc[p] = "write" /\ Steps(p)) =>
                    IF IsInsert(call[p])
                    THEN ~Stored(call[p])
                    ELSE /\ Stored(call[p])
                         /\ StoredOp(call[p]).Version = call[p].arg.Version]_vars

W_C12 ==
    \E p, q \in Procs :
        /\ p # q
        /\ pc[p] = "write" /\ mu = p /\ IsUpdate(call[p])
        /\ IsInsert(ret[q].call) /\ ret[q].err = Nil
        /\ KindOf(ret[q].call.method) = KindOf(call[p].method)
(***************************************************************************)
(* C13: a value returned by a read is a snapshot.  While a goroutine holds *)
(* the pointer a Get returned, no step of another goroutine (in particular *)
(* a successful Update of the same id) changes the value seen through it;  *)
(* and a write through the pointer leaves the three collections as they    *)
(* were: the store changes only in the map write of an Insert or Update.   *)
(***************************************************************************)
Acts(q) == pc'[q] # pc[q] \/ ret'[q] # ret[q]

C13_ReadsAreSnapshots ==
    [][/\ \A p, q \in Procs :
             (p # q /\ HoldsPointer(p) /\ Acts(q)) =>
                 /\ HoldsPointer(p)'
                 /\ Deref(ret[p].val)' = Deref(ret[p].val)
       /\ maps' # maps =>
             \E p \in Procs : pc[p] = "write" /\ Steps(p)]_vars

W_C13 ==
    \E p, q \in Procs :
        /\ p # q
        /\ HoldsPointer(p)
        /\ ret[p].call.method = "GetUpgradeKymaOperationByID"
        /\ IsUpdate(ret[q].call) /\ ret[q].err = Nil
        /\ ret[q].call.arg.ID = ret[p].call.arg
        /\ Deref(ret[p].val).Version < upgradeKymaOperations[ret[p].call.arg].Version
        /\ Deref(ret[p].val).State # upgradeKymaOperations[ret[p].call.arg].State


(***************************************************************************)
(* C14: entities are never removed.  An id present in one of the three     *)
(* collections is present in it after every step, and a read by id of a    *)
(* stored id does not answer NotFound.                                     *)
(***************************************************************************)
C14_NeverRemoved ==
    /\ [][\A k \in 1..3 : DOMAIN Collection(k) \subseteq DOMAIN Collection(k)']_vars
    /\ [](\A p \in Procs :
            (/\ ret[p].call.method \in GetMethods
             /\ \E k \in GetKinds(ret[p].call.method) :
                   Exists(Collection(k), ret[p].call.arg))
            => ret[p].err = Nil)

W_C14 ==
    \E p \in Procs :
        /\ ret[p].call = Call("GetUpgradeKymaOperationByID", "a")
        /\ ret[p].err = Nil
        /\ Exists(upgradeKymaOperations, "b")
        /\ upgradeKymaOperations["a"].Version > 0
        /\ upgradeKymaOperations["b"].Version > 0

(***************************************************************************)
(* C15: instanceID, runtimeID and orchestrationID of a stored operation    *)
(* keep the values given at Insert: no step changes them.                  *)
(***************************************************************************)
C15_ImmutableFields ==
    [][\A id \in DOMAIN upgradeKymaOperations \cap DOMAIN upgradeKymaOperations' :
          /\ upgradeKymaOperations'[id].InstanceID = upgradeKymaOperations[id].InstanceID
          /\ upgradeKymaOperations'[id].RuntimeID = upgradeKymaOperations[id].RuntimeID
          /\ upgradeKymaOperations'[id].OrchestrationID =
                upgradeKymaOperations[id].OrchestrationID]_vars

(***************************************************************************)
(* C16: ValidateTransformRuntimeTargetOpts called with an empty list of    *)
(* include targets returns an error whatever the exclude targets are, and  *)
(* appends nothing to Include or Exclude of the target spec.               *)
(***************************************************************************)
C16_EmptyIncludeRejected ==
    (cli.pc # "start" /\ Len(cli.targetInputs) = 0) =>
        /\ cli.pc = "returned"
        /\ cli.err # Nil
        /\ cli.targetSpec = TargetSpec

W_C16 ==
    /\ cli.pc = "returned"
    /\ Len(cli.targetInputs) = 0
    /\ Len(cli.targetExcludeInputs) = MaxInputs
    /\ cli.err # Nil

(***************************************************************************)
(* Selectors of a target input, as the user wrote them.                    *)
(***************************************************************************)
SelectorKeys(targetInput) ==
    LET selectors == Split(targetInput, ",")
    IN { Split(selectors[k], "=")[1] : k \in 1..Len(selectors) }

HasSelectorAll(targetInput) == TargetAll \in SelectorKeys(targetInput)

OtherSelectorsValid(targetInput) ==
    LET selectors == Split(targetInput, ",")
    IN \A k \in 1..Len(selectors) :
          LET sv == Split(selectors[k], "=")
          IN \/ sv[1] = TargetAll
             \/ /\ sv[1] \in {targetAccount, targetSubaccount, targetRegion,
                              targetRuntimeID}
                /\ Len(sv) > 1
                /\ sv[2] # <<>>

ExcludeAllRejected ==
    (cli.pc = "exclude" /\ cli' # cli
        /\ HasSelectorAll(cli.targetExcludeInputs[cli.n + 1])) =>
        /\ cli'.pc = "returned"
        /\ cli'.err # Nil
        /\ cli'.targetSpec = cli.targetSpec

IncludeAllAccepted ==
    /\ cli'.err = Nil
    /\ cli'.targetSpec.Exclude = cli.targetSpec.Exclude
    /\ Len(cli'.targetSpec.Include) = Len(cli.targetSpec.Include) + 1
    /\ SubSeq(cli'.targetSpec.Include, 1, Len(cli.targetSpec.Include)) =
          cli.targetSpec.Include
    /\ cli'.targetSpec.Include[Len(cli'.targetSpec.Include)].Target = TargetAll

(***************************************************************************)
(* C17, as claimed: parsing a --target-exclude input that contains the     *)
(* selector `all` fails and adds no entry to Exclude, and parsing any      *)
(* --target input that contains `all` yields a target whose Target is      *)
(* `all`.                                                                  *)
(***************************************************************************)
C17_AllOnlyInInclude ==
    [][/\ ExcludeAllRejected
       /\ (cli.pc = "include" /\ cli' # cli
             /\ HasSelectorAll(cli.targetInputs[cli.n + 1]))
          => IncludeAllAccepted]_vars

(***************************************************************************)
(* C17, amended: the include input yields the target when its other        *)
(* selectors are valid (a known key with a non-empty value).               *)
(***************************************************************************)
C17_AllOnlyInIncludeWhenValid ==
    [][/\ ExcludeAllRejected
       /\ (cli.pc = "include" /\ cli' # cli
             /\ HasSelectorAll(cli.targetInputs[cli.n + 1])
             /\ OtherSelectorsValid(cli.targetInputs[cli.n + 1]))
          => IncludeAllAccepted]_vars

W_C17 ==
    /\ cli.pc = "returned"
    /\ cli.err = "AllInExclude"
    /\ Len(cli.targetSpec.Exclude) = 1
    /\ \E i \in 1..Len(cli.targetSpec.Include) :
          /\ cli.targetSpec.Include[i].Target = TargetAll
          /\ cli.targetSpec.Include[i].RuntimeID = Value

(***************************************************************************)
(* Vocabulary of the scheduling properties.                                *)
(***************************************************************************)
Submitted == sched.orchestration # "none"

InProgressOps == { i \in 1..Len(sched.ops) : sched.ops[i] = InProgress }

Enters(i) == sched'.ops[i] = InProgress /\ sched.ops[i] # InProgress

Ended == Submitted /\ sched.phase = "done" /\ sched.orchestration \in Terminal

RemainderWaitsForBatch ==
    (Submitted /\ sched.strategy.type = "canary") =>
        \A i \in (sched.batch + 1)..Len(sched.ops) :
            Enters(i) => \A j \in 1..sched.batch : sched.ops[j] = Succeeded

BatchNotSucceeded ==
    /\ Ended
    /\ sched.strategy.type = "canary"
    /\ \E j \in 1..sched.batch : sched.ops[j] # Succeeded

RemainderCanceled ==
    \A i \in (sched.batch + 1)..Len(sched.ops) : sched.ops[i] = Canceled

(***************************************************************************)
(* C19, as claimed: under Canary(p, N) no operation of the remainder       *)
(* enters in-progress before every batch operation is terminal, never if   *)
(* a batch operation ended other than succeeded; in that case the          *)
(* remainder ends canceled and the orchestration ends failed.              *)
(***************************************************************************)
C19_CanaryPhases ==
    /\ [][RemainderWaitsForBatch]_vars
    /\ [](BatchNotSucceeded =>
            RemainderCanceled /\ sched.orchestration = Failed)

(***************************************************************************)
(* C19, amended: the orchestration ends failed unless cancellation was     *)
(* requested, in which case it ends canceled.                              *)
(***************************************************************************)
C19_CanaryPhasesOrCanceled ==
    /\ [][RemainderWaitsForBatch]_vars
    /\ [](BatchNotSucceeded =>
            /\ RemainderCanceled
            /\ sched.orchestration = IF sched.cancel THEN Canceled ELSE Failed)

W_C19 ==
    /\ BatchNotSucceeded
    /\ ~sched.cancel
    /\ sched.batch > 1
    /\ sched.batch < Len(sched.ops)
    /\ \E j \in 1..sched.batch : sched.ops[j] = Succeeded
    /\ RemainderCanceled
    /\ sched.orchestration = Failed

(***************************************************************************)
(* C20: an Orchestration is terminal if and only if every one of its       *)
(* RuntimeOperations is terminal, and a terminal Orchestration is not      *)
(* changed any more.                                                       *)
(***************************************************************************)
C20_TerminalIffChildrenTerminal ==
    /\ [](Submitted =>
            (sched.orchestration \in Terminal <=> AllTerminal(sched.ops)))
    /\ [][(Submitted /\ sched.orchestration \in Terminal) =>
            /\ sched'.orchestration = sched.orchestration
            /\ sched'.strategy = sched.strategy]_vars

(***************************************************************************)
(* C21: GetOperationByID(id) returns NotFound if and only if id is stored  *)
(* in none of the three collections; otherwise it returns the Operation    *)
(* of a stored operation with that id; the store is unchanged either way.  *)
(***************************************************************************)
IsGetOperationByID(r) == r.call.method = "GetOperationByID"

C21_GetOperationByID ==
    /\ [](\A p \in Callers :
            IsGetOperationByID(ret[p]) =>
                /\ ret[p].err \in {Nil, "NotFound"}
                /\ ret[p].err = "NotFound" <=>
                      \A k \in 1..3 : ~Exists(Collection(k), ret[p].call.arg)
                /\ ret[p].err = Nil =>
                      \E k \in 1..3 :
                          /\ Exists(Collection(k), ret[p].call.arg)
                          /\ Deref(ret[p].val) = Collection(k)[ret[p].call.arg])
    /\ [][\A p \in Callers :
            (IsGetOperationByID(ret[p]') /\ ret[p]' # ret[p]) => maps' = maps]_vars

W_C21 ==
    \E p \in Callers :
        /\ IsGetOperationByID(ret[p])
        /\ ret[p].err = Nil
        /\ ~Exists(provisioningOperations, ret[p].call.arg)
        /\ Exists(deprovisioningOperations, ret[p].call.arg)
        /\ ~Exists(upgradeKymaOperations, ret[p].call.arg)
        /\ Deref(ret[p].val).Version > 0

(***************************************************************************)
(* C22: ListUpgradeKymaOperationsByInstanceID(i) returns exactly the       *)
(* stored upgrade operations whose instanceID is i, ordered by createdAt   *)
(* ascending.                                                              *)
(***************************************************************************)
IsListByInstanceID(r) ==
    r.call.method = "ListUpgradeKymaOperationsByInstanceID" /\ r.err = Nil

C22_ListOnlyInstance ==
    \A p \in Callers :
        IsListByInstanceID(ret[p]) =>
            /\ Range(ret[p].val) =
                  { upgradeKymaOperations[id] : id \in
                      { k \in DOMAIN upgradeKymaOperations :
                          upgradeKymaOperations[k].InstanceID = ret[p].call.arg } }
            /\ \A i, j \in 1..Len(ret[p].val) :
                  i < j => ret[p].val[i].CreatedAt <= ret[p].val[j].CreatedAt

(***************************************************************************)
(* C23: every read of the collections happens while the reader holds the   *)
(* store's mutex, so no read overlaps the write of an Insert or Update to  *)
(* the same collection (and the runtime never stops the process for a      *)
(* concurrent map read and map write).                                     *)
(***************************************************************************)
Reads(p) == ret[p]' # ret[p] /\ ret[p]'.call.method \in GetMethods

C23_ReadsUnderMutex ==
    [][/\ \A p \in Procs :
             Reads(p) =>
                 /\ mu = p
                 /\ ~Racing(p, ret[p]'.call.method)
       /\ \A p \in Procs : pc[p]' # "crashed"]_vars

(***************************************************************************)
(* C24: after ApplyUpgradingKymaOperations returns, Count is len(oprs),    *)
(* TotalCount is totalCount, and Data[i] carries the id, state,            *)
(* description and createdAt of oprs[i]; its OrchestrationID is nil when   *)
(* oprs[i].OrchestrationID is empty and otherwise points to the value of   *)
(* oprs[i].OrchestrationID.                                                *)
(***************************************************************************)
C24_DataMirrorsOprs ==
    conv.pc = "returned" =>
        /\ conv.UpgradingKyma.Count = Len(conv.oprs)
        /\ conv.UpgradingKyma.TotalCount = conv.totalCount
        /\ Len(conv.UpgradingKyma.Data) = Len(conv.oprs)
        /\ \A i \in 1..Len(conv.oprs) :
              LET data == conv.UpgradingKyma.Data[i]
                  opr == conv.oprs[i]
              IN /\ data.OperationID = opr.ID
                 /\ data.State = opr.State
                 /\ data.Description = opr.Description
                 /\ data.CreatedAt = opr.CreatedAt
                 /\ IF opr.OrchestrationID = ""
                    THEN data.OrchestrationID = <<>>
                    ELSE /\ data.OrchestrationID # <<>>
                         /\ conv.o[data.OrchestrationID[1]].OrchestrationID =
                               opr.OrchestrationID
====
